---- MODULE Spec2Model ----
(***************************************************************************)
(* Task lifecycle of async-ai-task-runner: the HTTP API (app/api/v1),      *)
(* the persistence layer (app/crud/task.py, app/models.py), the Celery job *)
(* run_ai_text_generation (app/worker/tasks/ai_tasks.py) and the AI        *)
(* service manager (app/services/ai_service.py).                           *)
(*                                                                         *)
(* Conventions.  A Python string is a sequence of chunks; every chunk is a *)
(* TLA+ string that stands for a fixed run of characters whose length is   *)
(* given by ChunkLen.  An Optional value is a sequence of length at most   *)
(* one: None is << >>, the value v is << v >>.  A Python object is a       *)
(* record; reading an attribute that the record does not have raises       *)
(* AttributeError.                                                         *)
(***************************************************************************)
EXTENDS Integers, Sequences, FiniteSets, Bags, TLC

\* ------------------------------------------------------------------ bounds
MaxTasks == 1
MaxSends == 1

\* paging: rows of the listed table, distinct created_at values, list calls
MaxRows == 3

MaxStamp == 2

MaxPages == 3

Workers == {"w1", "w2"}

\* Free slots are interchangeable; the broker's message goes to the first.
SlotBefore(v, w) == v = "w1" /\ w = "w2"

\* ----------------------------------------------------------- Optional[T]
None == << >>

Some(v) == << v >>

\* ------------------------------------------------------------- strings
\* Characters held by one chunk.  "x" is one filler character, "X999" a run
\* of 999 filler characters; the keywords are the ones that
\* _generate_fallback_result looks for.
ChunkLen(c) ==
    CASE c = "x" -> 1
      [] c = "X999" -> 999
      [] c = "weather" -> 2      \* the two characters of the keyword 天气
      [] c = "calc" -> 2         \* 计算
      [] c = "+" -> 1
      [] c = "Python" -> 6
      [] c = "python" -> 6
      [] c = "Explain gravity" -> 15
      [] OTHER -> 1

RECURSIVE StrLen(_)
StrLen(s) == IF s = << >> THEN 0 ELSE ChunkLen(Head(s)) + StrLen(Tail(s))

\* str.lower(), chunk by chunk
LowerChunk(c) == IF c = "Python" THEN "python" ELSE c

Lower(s) == [i \in 1..Len(s) |-> LowerChunk(s[i])]

\* the Python expression  kw in s
Contains(s, kw) == \E i \in 1..Len(s) : s[i] = kw

\* truth value of an Optional[str]: None and "" are false
Truthy(o) == o # None /\ o[1] # << >>

\* str(n) for a natural number, one chunk per decimal digit
Digit(d) ==
    CASE d = 0 -> "0" [] d = 1 -> "1" [] d = 2 -> "2" [] d = 3 -> "3"
      [] d = 4 -> "4" [] d = 5 -> "5" [] d = 6 -> "6" [] d = 7 -> "7"
      [] d = 8 -> "8" [] d = 9 -> "9"

RECURSIVE str(_)
str(n) == IF n < 10 THEN << Digit(n) >> ELSE str(n \div 10) \o << Digit(n % 10) >>

DigitValue(c) ==
    CASE c = "0" -> 0 [] c = "1" -> 1 [] c = "2" -> 2 [] c = "3" -> 3
      [] c = "4" -> 4 [] c = "5" -> 5 [] c = "6" -> 6 [] c = "7" -> 7
      [] c = "8" -> 8 [] c = "9" -> 9 [] OTHER -> -1

\* int(s) raises ValueError unless s is a non-empty run of digits
IntRaises(s) == s = << >> \/ \E i \in 1..Len(s) : DigitValue(s[i]) < 0

RECURSIVE int(_)
int(s) == IF Len(s) = 1 THEN DigitValue(s[1])
          ELSE 10 * int(SubSeq(s, 1, Len(s) - 1)) + DigitValue(s[Len(s)])

\* ------------------------------------------------------------- TaskStatus
PENDING == "PENDING"

PROCESSING == "PROCESSING"

COMPLETED == "COMPLETED"

FAILED == "FAILED"

TaskStatus == {PENDING, PROCESSING, COMPLETED, FAILED}

\* ------------------------------------------------------------------ state
VARIABLES
    tasks,      \* the tasks table: tasks[i] is the row whose primary key is i
    clock,      \* the database's now(), which moves with every insert
    queue,      \* the broker: a bag of job messages not yet delivered
    worker,     \* per worker slot: position in run_ai_text_generation and its locals
    sent,       \* number of job messages producers have sent so far
    providers,  \* ai_service.providers: names registered at process start
    resp,       \* the HTTP response that is being sent, if any
    pages,      \* the list responses a paging client has received so far
    mcp         \* the result of the last MCP tool call

vars == << tasks, clock, queue, worker, sent, providers, resp, pages, mcp >>

\* ------------------------------------------------------------ app/schemas.py
PromptMinLength == 1

PromptMaxLength == 1000

PriorityGe == 1

PriorityLe == 10

DefaultPriority == 1

DefaultModel == "gpt-3.5-turbo"

\* Field(..., min_length=1, max_length=1000)
PromptOk(p) == PromptMinLength <= StrLen(p) /\ StrLen(p) <= PromptMaxLength

PriorityOk_le11(n) == PriorityGe <= n /\ n <= PriorityLe + 1

\* Field(default=1, ge=1, le=10)
PriorityOk(n) == PriorityGe <= n /\ n <= PriorityLe

\* Validation of a request body against TaskCreate (= TaskBase).  A body is a
\* record of Optionals, None standing for a key that is not sent.  The key
\* "provider" is not a field of TaskBase and is ignored.
TaskBaseValid(body) ==
    /\ body.prompt # None
    /\ PromptOk(body.prompt[1])
    /\ body.priority # None => PriorityOk(body.priority[1])

\* The TaskCreate object built from a valid body: exactly the three fields of
\* TaskBase, with the schema's defaults.
TaskCreate(body) ==
    [ prompt   |-> body.prompt[1],
      priority |-> IF body.priority = None THEN DefaultPriority ELSE body.priority[1],
      model    |-> IF body.model = None THEN Some(DefaultModel) ELSE body.model ]

\* TaskResponse.model_validate(row): model is a required str, prompt and
\* priority carry TaskBase's constraints.
TaskResponseValid(row) ==
    /\ row.model # None
    /\ PromptOk(row.prompt)
    /\ PriorityOk(row.priority)

\* The serialised TaskResponse: TaskBase's fields plus id, status, result and
\* created_at.  There is no provider field.
TaskResponse(row) ==
    [ prompt |-> row.prompt, priority |-> row.priority, model |-> row.model,
      id |-> row.id, status |-> row.status, result |-> row.result,
      created_at |-> row.created_at ]

\* ---------------------------------------------------------- app/crud/task.py
TaskAttrs == {"prompt", "model", "provider", "priority"}

\* create_task reads obj_in.prompt, .model, .provider and .priority before it
\* touches the session; a missing attribute raises AttributeError.
task_crud_create_task_raises(obj_in) == \E a \in TaskAttrs : a \notin DOMAIN obj_in

\* The row create_task adds: status PENDING, result NULL, id from the
\* sequence, created_at from the server default now().
NewRowSameId(table, obj_in, now) ==
    [ prompt |-> obj_in.prompt, priority |-> obj_in.priority,
      model |-> obj_in.model, id |-> 1, status |-> PENDING,
      result |-> None, created_at |-> now, provider |-> obj_in.provider ]

NewRow(table, obj_in, now) ==
    [ prompt |-> obj_in.prompt, priority |-> obj_in.priority,
      model |-> obj_in.model, id |-> Len(table) + 1, status |-> PENDING,
      result |-> None, created_at |-> now, provider |-> obj_in.provider ]

TaskIds == 1..Len(tasks)

task_crud_get_task_unfiltered(task_id) ==
    IF tasks # << >> THEN Some(tasks[1]) ELSE None

\* get_task: scalar_one_or_none() on the primary key
task_crud_get_task(task_id) == IF task_id \in TaskIds THEN Some(tasks[task_id]) ELSE None

\* The orders in which the database may hand back the rows for
\* ORDER BY created_at DESC: every arrangement of the ids whose created_at
\* values do not increase.  Rows with equal created_at may come in any order,
\* and the order is chosen anew for every query.
DbOrders ==
    { o \in [TaskIds -> TaskIds] :
        /\ \A a, b \in TaskIds : a # b => o[a] # o[b]
        /\ \A a, b \in TaskIds :
              a < b => tasks[o[a]].created_at >= tasks[o[b]].created_at }

Min(a, b) == IF a < b THEN a ELSE b

\* get_tasks: select(Task).offset(skip).limit(limit).order_by(created_at desc)
task_crud_get_tasks(skip, limit, order) ==
    [ n \in 1..(Min(skip + limit, Len(tasks)) - Min(skip, Len(tasks)))
        |-> tasks[order[skip + n]] ]

\* The row the synchronous helpers find for a job's task_id string:
\* int(task_id), and on ValueError a comparison of the integer key with the
\* string itself, which matches no row.
FindRow(task_id) ==
    IF IntRaises(task_id) THEN None ELSE task_crud_get_task(int(task_id))

update_task_status_sync_all_rows(task_id, status, dbOk) ==
    IF dbOk THEN [i \in DOMAIN tasks |-> [tasks[i] EXCEPT !.status = status]]
    ELSE tasks

\* update_task_status_sync: the table after the call, and its return value.
\* dbOk is FALSE when the query or the commit raises (SQLAlchemyError): the
\* session is rolled back and False is returned.
update_task_status_sync(task_id, status, dbOk) ==
    IF dbOk /\ FindRow(task_id) # None
    THEN [tasks EXCEPT ![int(task_id)].status = status]
    ELSE tasks

update_task_result_sync_assigning(task_id, status, result, dbOk) ==
    IF dbOk /\ FindRow(task_id) # None
    THEN [tasks EXCEPT ![int(task_id)].status = status,
                       ![int(task_id)].result = result]
    ELSE tasks

update_task_result_sync_deleting(task_id, status, result, dbOk) ==
    IF dbOk /\ FindRow(task_id) # None /\ int(task_id) = Len(tasks)
    THEN SubSeq(tasks, 1, Len(tasks) - 1)
    ELSE tasks

\* update_task_result_sync: status is always written, result only when it
\* is truthy ("if result:").
update_task_result_sync(task_id, status, result, dbOk) ==
    IF dbOk /\ FindRow(task_id) # None
    THEN [tasks EXCEPT ![int(task_id)].status = status,
                       ![int(task_id)].result =
                           IF Truthy(result) THEN result ELSE @]
    ELSE tasks

\* the bool both helpers return
update_returns(task_id, dbOk) == dbOk /\ FindRow(task_id) # None

\* ------------------------------------------------ app/services/ai_service.py
\* registration order of _initialize_providers
ProviderOrder == << "openai", "deepseek", "anthropic" >>

is_available_always == TRUE

\* is_available(): len(self.providers) > 0
is_available == providers # {}

\* truth value of an Optional provider or model name
TruthyName(o) == o # None /\ o[1] # ""

\* get_provider raises when nothing is registered, or when a name is given
\* ("if provider_name:") that is not registered
get_provider_raises(provider_name) ==
    \/ providers = {}
    \/ TruthyName(provider_name) /\ provider_name[1] \notin providers

\* get_provider: the named provider, else the first registered one
get_provider(provider_name) ==
    IF TruthyName(provider_name) THEN provider_name[1]
    ELSE ProviderOrder[CHOOSE i \in 1..Len(ProviderOrder) :
            /\ ProviderOrder[i] \in providers
            /\ \A j \in 1..(i - 1) : ProviderOrder[j] \notin providers]

\* settings.default_ai_model
default_ai_model == "gpt-3.5-turbo"

\* generate_text, "if not model:": the default model of the provider's class
provider_default_model(provider) ==
    IF provider = "deepseek" THEN "deepseek-chat"
    ELSE IF provider = "openai" THEN default_ai_model
    ELSE IF provider = "anthropic" THEN "claude-3-sonnet-20240229"
    ELSE default_ai_model

\* the model name provider.generate_text(prompt, model=model, ...) is called with
\* for job message j
model_used(j) ==
    IF TruthyName(j.model) THEN j.model[1]
    ELSE provider_default_model(get_provider(j.provider))

\* What one provider HTTP call can hand back: the content of the first
\* choice (a string, possibly empty, or JSON null), or an exception.
ProviderReplies == { None, Some(<< >>), Some(<< "Gravity explanation" >>) }

\* ------------------------------------------------ app/worker/tasks/ai_tasks.py
MaxRetries == 3

RetryCountdown == 60

\* error_msg of the availability check
NoProviderMsg == << "no AI service available, configure an API key" >>

\* f"AI文本生成失败: {str(e)}"
FailurePrefix == << "AI text generation failed: " >>

\* str(TypeError) of len(None)
NoLenMsg == << "object of type 'NoneType' has no len()" >>

\* _generate_fallback_result: keyword matching on prompt.lower(), first match
\* wins; every branch is an f-string around the prompt.  The chunks "weather",
\* "calc", "math", "plus", "code", "programming", "translate" and "english"
\* stand for the keywords 天气, 计算, 数学, 加, 代码, 编程, 翻译 and 英文.
FallbackKind(prompt) ==
    LET pl == Lower(prompt) IN
    IF Contains(pl, "weather") THEN "weather"
    ELSE IF Contains(pl, "calc") \/ Contains(pl, "math")
         THEN IF Contains(pl, "+") \/ Contains(pl, "plus") THEN "sum" ELSE "answer42"
    ELSE IF Contains(pl, "code") \/ Contains(pl, "python") \/ Contains(pl, "programming")
         THEN "code"
    ELSE IF Contains(pl, "translate") \/ Contains(pl, "english") THEN "translation"
    ELSE "generic"

FallbackNone(prompt) == None

_generate_fallback_result(prompt) ==
    Some(<< "fallback:", FallbackKind(prompt), "'" >> \o prompt \o << "'" >>)

\* A job message: the keyword arguments of run_ai_text_generation plus the
\* request's retry count and countdown.
Job(task_id, prompt, model, provider, retries, countdown) ==
    [ prompt |-> prompt, model |-> model, provider |-> provider,
      task_id |-> task_id, retries |-> retries, countdown |-> countdown ]

NoJob == Job(<< >>, << >>, None, None, 0, 0)

\* Locals of one execution: pc is the position in the function body, result
\* the local of that name, via where it came from, exc the message of the
\* exception being handled, wrote what the last update_* call returned,
\* called the model name the provider's generate_text was called with.
Idle == [ result |-> None, pc |-> "idle", job |-> NoJob, via |-> "none",
          exc |-> << >>, wrote |-> FALSE, called |-> None ]

\* ----------------------------------------------------------- app/database.py
\* get_db_session is "async def ...: return AsyncSessionLocal()": calling it
\* gives a coroutine, and only the awaited value would be a session.
get_db_session == "coroutine"

\* the types that have __aenter__ and __aexit__
AsyncContextManagers == {"AsyncSession"}

\* "async with obj": TypeError when obj has no __aenter__
async_with_raises(obj) == obj \notin AsyncContextManagers

\* --------------------------------------------------------------------- Init
ProviderConfigs == { {}, {"deepseek"}, {"openai", "anthropic"} }

NoResp == [ id |-> 0, op |-> "none", code |-> 0, task |-> None ]

\* A CallToolResult: isError, and the JSON text of its content (success, the
\* error text, and on success the task's values).
ToolResult(name, task_id, isError, success, error, content) ==
    [ task_id |-> task_id, name |-> name, isError |-> isError,
      success |-> success, error |-> error, content |-> content ]

NoTool == ToolResult("none", 0, FALSE, FALSE, "", None)

Init ==
    /\ tasks = << >>
    /\ clock = 0
    /\ queue = EmptyBag
    /\ worker = [w \in Workers |-> Idle]
    /\ sent = 0
    /\ providers \in ProviderConfigs
    /\ resp = NoResp
    /\ pages = << >>
    /\ mcp = NoTool

\* ------------------------------------------------- environment: producers
\* Rows written straight through the ORM (Task(...), add, commit), as the
\* fixtures and the Celery demo script do: the sample_task fixture's row
\* (model deepseek-chat, provider deepseek, priority 2), and a row without a
\* model.
SeedTasks ==
    << [ prompt |-> << "weather", "x" >>, priority |-> 2,
         model |-> Some("deepseek-chat"), provider |-> Some("deepseek") ],
       [ prompt |-> << "Explain gravity" >>, priority |-> 5,
         model |-> None, provider |-> Some("openai") ] >>

\* the n-th row to be inserted
SeedTask(n) == SeedTasks[((n - 1) % Len(SeedTasks)) + 1]

InsertRow(obj) ==
    /\ clock' = clock + 1
    /\ tasks' = Append(tasks, NewRow(tasks, obj, clock'))
    /\ resp = NoResp
    /\ UNCHANGED << queue, worker, sent, providers, resp, pages, mcp >>

InsertTask(obj) ==
    /\ Len(tasks) < MaxTasks
    /\ InsertRow(obj)

\* a task id a producer may name that matches no row
GhostIds == { str(MaxTasks + 1) }

\* run_ai_text_generation.delay(task_id=str(id), prompt=..., model=...,
\* provider=...) by a producer outside the HTTP API
SendJob(j) ==
    /\ sent < MaxSends
    /\ sent' = sent + 1
    /\ queue' = queue (+) SetToBag({j})
    /\ resp = NoResp
    /\ UNCHANGED << tasks, clock, worker, providers, resp, pages, mcp >>

JobFor(row) == Job(str(row.id), row.prompt, row.model, row.provider, 0, 0)

\* ------------------------------------------------ app/api/v1/endpoints/tasks.py
\* status code, and for a task response the id and the serialised task
Response(op, code, id, task) ==
    [ id |-> id, op |-> op, code |-> code, task |-> task ]

create_task_enqueue_first(body, brokerUp) ==
    /\ resp = NoResp
    /\ TaskBaseValid(body)
    /\ queue' = queue (+) SetToBag({Job(str(Len(tasks) + 1), body.prompt[1],
                                        TaskCreate(body).model, None, 0, 0)})
    /\ resp' = Response("create_task", 500, 0, None)
    /\ UNCHANGED << tasks, clock, worker, sent, providers, pages, mcp >>

\* POST /tasks.  brokerUp is FALSE when .delay() raises.
create_task(body, brokerUp) ==
    /\ resp = NoResp
    /\ IF ~TaskBaseValid(body)
       THEN \* request validation fails before the handler runs
            /\ resp' = Response("create_task", 422, 0, None)
            /\ UNCHANGED << tasks, clock, queue, worker, sent, providers, pages, mcp >>
       ELSE LET task_in == TaskCreate(body) IN
            IF task_crud_create_task_raises(task_in)
            THEN \* "except Exception as e": HTTP 500, nothing added, no .delay()
                 /\ resp' = Response("create_task", 500, 0, None)
                 /\ UNCHANGED << tasks, clock, queue, worker, sent, providers, pages, mcp >>
            ELSE /\ clock' = clock + 1
                 /\ LET task == NewRow(tasks, task_in, clock') IN
                    /\ tasks' = Append(tasks, task)
                    /\ queue' = IF brokerUp THEN queue (+) SetToBag({JobFor(task)})
                                ELSE queue
                    /\ resp' = IF TaskResponseValid(task)
                               THEN Response("create_task", 201, task.id,
                                             Some(TaskResponse(task)))
                               ELSE Response("create_task", 500, 0, None)
                 /\ UNCHANGED << worker, sent, providers, pages, mcp >>

get_task_marking(task_id) ==
    /\ resp = NoResp
    /\ task_id \in TaskIds
    /\ tasks' = [tasks EXCEPT ![task_id].status = PROCESSING]
    /\ resp' = Response("get_task", 200, task_id, Some(TaskResponse(tasks'[task_id])))
    /\ UNCHANGED << clock, queue, worker, sent, providers, pages, mcp >>

\* GET /tasks/{task_id}
get_task(task_id) ==
    /\ resp = NoResp
    /\ LET task == task_crud_get_task(task_id) IN
       resp' = IF task = None
               THEN Response("get_task", 404, task_id, None)
               ELSE IF TaskResponseValid(task[1])
               THEN Response("get_task", 200, task_id, Some(TaskResponse(task[1])))
               ELSE Response("get_task", 500, task_id, None)
    /\ UNCHANGED << tasks, clock, queue, worker, sent, providers, pages, mcp >>

\* GET /tasks?skip=&limit=.  The response is a list of TaskResponse; a row that
\* does not validate makes the whole response fail.
get_tasks(skip, limit, order) ==
    /\ Len(pages) < MaxPages
    /\ LET rows == task_crud_get_tasks(skip, limit, order)
           ok   == \A n \in 1..Len(rows) : TaskResponseValid(rows[n])
       IN  pages' = Append(pages,
                      [ tasks |-> IF ok THEN [n \in 1..Len(rows) |-> TaskResponse(rows[n])]
                                  ELSE << >>,
                        skip |-> skip, limit |-> limit,
                        code |-> IF ok THEN 200 ELSE 500 ])
    /\ UNCHANGED << tasks, clock, queue, worker, sent, providers, resp, mcp >>

\* ----------------------------------------------- app/api/v1/endpoints/health.py
\* GET /health: answers from the settings and the clock, without a database
\* session.
health_check ==
    /\ resp = NoResp
    /\ resp' = Response("health_check", 200, 0, None)
    /\ UNCHANGED << tasks, clock, queue, worker, sent, providers, pages, mcp >>

\* The handler returns and the response leaves the API process.  No other
\* step reads resp, so holding the other steps back until the response is
\* sent removes no behaviour of the table, the broker or the workers.
ResponseSent ==
    /\ resp # NoResp
    /\ resp' = NoResp
    /\ UNCHANGED << tasks, clock, queue, worker, sent, providers, pages, mcp >>

\* ---------------------------------------------------------- app/mcp/server.py
\* _handle_get_task_result(db, arguments) on a working session
_handle_get_task_result(name, task_id) ==
    LET task == task_crud_get_task(task_id) IN
    IF task = None
    THEN ToolResult(name, task_id, TRUE, FALSE, "not found", None)
    ELSE IF task[1].status # COMPLETED
    THEN ToolResult(name, task_id, TRUE, FALSE, "is not completed", None)
    ELSE ToolResult(name, task_id, FALSE, TRUE, "",
                    Some([ prompt |-> task[1].prompt, model |-> task[1].model,
                           result |-> task[1].result,
                           provider |-> task[1].provider, task_id |-> task[1].id ]))

\* arguments.get("priority", 5)
McpDefaultPriority == 5

\* arguments.get("model", "deepseek-chat")
McpDefaultModel == "deepseek-chat"

\* arguments.get("provider", "deepseek")
McpDefaultProvider == "deepseek"

McpTaskCreate_keeping_provider(arguments) ==
    [ prompt   |-> arguments.prompt[1],
      priority |-> IF arguments.priority = None THEN McpDefaultPriority
                   ELSE arguments.priority[1],
      model    |-> IF arguments.model = None THEN Some(McpDefaultModel)
                   ELSE arguments.model,
      provider |-> IF arguments.provider = None THEN Some(McpDefaultProvider)
                   ELSE arguments.provider ]

\* TaskCreate(prompt=..., model=..., priority=..., provider=...): TaskCreate
\* has no field "provider" and ignores the keyword, so the object has the
\* three fields of TaskBase.
McpTaskCreate(arguments) ==
    [ prompt   |-> arguments.prompt[1],
      priority |-> IF arguments.priority = None THEN McpDefaultPriority
                   ELSE arguments.priority[1],
      model    |-> IF arguments.model = None THEN Some(McpDefaultModel)
                   ELSE arguments.model ]

\* arguments["prompt"] raises KeyError without a prompt, TaskCreate raises
\* ValidationError on TaskBase's constraints
McpTaskCreate_raises(arguments) == ~TaskBaseValid(arguments)

\* _handle_create_task(db, arguments) on a working session: the row is
\* inserted and nothing is sent to the broker; "except Exception" turns
\* whatever is raised into an error result.
_handle_create_task(name, arguments) ==
    IF \/ McpTaskCreate_raises(arguments)
       \/ task_crud_create_task_raises(McpTaskCreate(arguments))
    THEN /\ mcp' = ToolResult(name, 0, TRUE, FALSE, "Failed to create task", None)
         /\ UNCHANGED << tasks, clock >>
    ELSE /\ clock' = clock + 1
         /\ tasks' = Append(tasks, NewRow(tasks, McpTaskCreate(arguments), clock'))
         /\ mcp' = ToolResult(name, Len(tasks'), FALSE, TRUE, "",
                              Some([ status |-> PENDING, task_id |-> Len(tasks') ]))

\* the task_id an arguments object carries, 0 when it carries none
ArgTaskId(arguments) ==
    IF "task_id" \in DOMAIN arguments THEN arguments.task_id ELSE 0

\* handle_call_tool(name, arguments): the handler runs inside
\* "async with get_db_session() as db", and "except Exception" turns whatever
\* is raised into an error result.
handle_call_tool(name, arguments) ==
    /\ IF async_with_raises(get_db_session)
       THEN /\ mcp' = ToolResult(name, ArgTaskId(arguments), TRUE, FALSE,
                                 "Error executing tool", None)
            /\ UNCHANGED << tasks, clock >>
       ELSE IF name = "create_task"
       THEN _handle_create_task(name, arguments)
       ELSE /\ mcp' = _handle_get_task_result(name, arguments.task_id)
            /\ UNCHANGED << tasks, clock >>
    /\ UNCHANGED << queue, worker, sent, providers, resp, pages >>

\* _handle_create_task called with a session of the caller's own making, as
\* the integration tests call it.
create_handler_called_directly(arguments) ==
    /\ _handle_create_task("_handle_create_task", arguments)
    /\ UNCHANGED << queue, worker, sent, providers, resp, pages >>

\* ------------------------------------------- app/mcp/config.py, tools/task_tools.py
\* mcp_settings.allowed_models
allowed_models == {"deepseek-chat", "gpt-3.5-turbo", "gpt-4", "claude-3-sonnet"}

\* mcp_settings.allowed_providers
allowed_providers == {"deepseek", "openai", "anthropic"}

\* validate_task_params(params)
validate_task_params(params) ==
    /\ params.prompt # None
    /\ StrLen(params.prompt[1]) > 0
    /\ StrLen(params.prompt[1]) <= PromptMaxLength
    /\ params.model # None => params.model[1] \in allowed_models
    /\ params.provider # None => params.provider[1] \in allowed_providers
    /\ params.priority # None => PriorityOk(params.priority[1])

\* create_task_tool(arguments): validation, then the same insert inside
\* "async with get_db_session() as db"; every exception becomes an error
\* dictionary.
create_task_tool(arguments) ==
    /\ IF ~validate_task_params(arguments)
       THEN /\ mcp' = ToolResult("create_task_tool", 0, TRUE, FALSE,
                                 "VALIDATION_ERROR", None)
            /\ UNCHANGED << tasks, clock >>
       ELSE IF async_with_raises(get_db_session)
       THEN /\ mcp' = ToolResult("create_task_tool", 0, TRUE, FALSE,
                                 "CREATION_ERROR", None)
            /\ UNCHANGED << tasks, clock >>
       ELSE _handle_create_task("create_task_tool", arguments)
    /\ UNCHANGED << queue, worker, sent, providers, resp, pages >>

\* The handler called with a session of the caller's own making, as the
\* integration tests call it.
handler_called_directly(task_id) ==
    /\ mcp' = _handle_get_task_result("_handle_get_task_result", task_id)
    /\ UNCHANGED << tasks, clock, queue, worker, sent, providers, resp, pages >>

\* --------------------------------- run_ai_text_generation, one step at a time
\* Between two database calls the function only computes on its locals, so a
\* step is one database call (or the provider call) with the local
\* computation that follows it.

\* Lines 19-34: a worker slot takes message j and writes PROCESSING; the
\* availability check decides where the body continues.
JobStart(w, j, dbOk) ==
    /\ worker[w].pc = "idle"
    /\ \A v \in Workers : SlotBefore(v, w) => worker[v].pc # "idle"
    /\ BagIn(j, queue)
    /\ queue' = queue (-) SetToBag({j})
    /\ tasks' = update_task_status_sync(j.task_id, PROCESSING, dbOk)
    /\ worker' = [worker EXCEPT ![w] =
                    [ result |-> None,
                      pc |-> IF is_available THEN "generate" ELSE "unavailable",
                      job |-> j, via |-> "none", exc |-> << >>,
                      wrote |-> update_returns(j.task_id, dbOk),
                      called |-> None ]]
    /\ resp = NoResp
    /\ UNCHANGED << clock, sent, providers, resp, pages, mcp >>

\* Lines 34-38: no provider is registered: write FAILED with the message and
\* raise it.
JobUnavailable(w, dbOk) ==
    /\ worker[w].pc = "unavailable"
    /\ tasks' = update_task_result_sync(worker[w].job.task_id, FAILED,
                                        Some(NoProviderMsg), dbOk)
    /\ worker' = [worker EXCEPT ![w].pc = "except", ![w].exc = NoProviderMsg,
                                ![w].wrote = update_returns(worker[w].job.task_id, dbOk)]
    /\ resp = NoResp
    /\ UNCHANGED << clock, queue, sent, providers, resp, pages, mcp >>

\* Lines 45-62: ai_service.generate_text(prompt, provider_name, model).  It
\* raises when get_provider raises or the provider's HTTP call fails, and the
\* handler then takes the fallback text.
JobGenerate(w) ==
    /\ worker[w].pc = "generate"
    /\ \/ /\ ~get_provider_raises(worker[w].job.provider)
          /\ \E r \in ProviderReplies :
                worker' = [worker EXCEPT ![w].pc = "write", ![w].result = r,
                                         ![w].via = "provider",
                                         ![w].called = Some(model_used(worker[w].job))]
       \/ worker' = [worker EXCEPT ![w].pc = "write",
                        ![w].result = _generate_fallback_result(worker[w].job.prompt),
                        ![w].via = "fallback",
                        ![w].called =
                            IF get_provider_raises(worker[w].job.provider) THEN None
                            ELSE Some(model_used(worker[w].job))]
    /\ resp = NoResp
    /\ UNCHANGED << tasks, clock, queue, sent, providers, resp, pages, mcp >>

\* Lines 65-77: write COMPLETED with the result; len(result) raises TypeError
\* when the result is None, otherwise the payload is returned.
JobWrite(w, dbOk) ==
    /\ worker[w].pc = "write"
    /\ tasks' = update_task_result_sync(worker[w].job.task_id, COMPLETED,
                                        worker[w].result, dbOk)
    /\ worker' = [worker EXCEPT
                    ![w].pc = IF worker[w].result = None THEN "except" ELSE "returned",
                    ![w].exc = IF worker[w].result = None THEN NoLenMsg ELSE << >>,
                    ![w].wrote = update_returns(worker[w].job.task_id, dbOk)]
    /\ resp = NoResp
    /\ UNCHANGED << clock, queue, sent, providers, resp, pages, mcp >>

retry_exhausted_late(j) == j.retries + 1 > MaxRetries + 1

\* self.retry(exc=e, countdown=60, max_retries=3): a new message unless the
\* request has used up its retries, in which case exc is raised.
retry_exhausted(j) == j.retries + 1 > MaxRetries

\* Lines 79-89: write FAILED with the failure message, then retry.
JobExcept(w, dbOk) ==
    /\ worker[w].pc = "except"
    /\ tasks' = update_task_result_sync(worker[w].job.task_id, FAILED,
                                        Some(FailurePrefix \o worker[w].exc), dbOk)
    /\ LET j == worker[w].job IN
       IF retry_exhausted(j)
       THEN /\ worker' = [worker EXCEPT ![w].pc = "raised",
                             ![w].wrote = update_returns(j.task_id, dbOk)]
            /\ queue' = queue
       ELSE /\ worker' = [worker EXCEPT ![w].pc = "retried",
                             ![w].wrote = update_returns(j.task_id, dbOk)]
            /\ queue' = queue (+) SetToBag({Job(j.task_id, j.prompt, j.model,
                                   j.provider, j.retries + 1, RetryCountdown)})
    /\ resp = NoResp
    /\ UNCHANGED << clock, sent, providers, resp, pages, mcp >>

\* The execution has ended (returned, raised, or raised Retry); the message
\* is acknowledged (task_acks_late) and the slot is free again.
JobAck(w) ==
    /\ worker[w].pc \in {"returned", "raised", "retried"}
    /\ worker' = [worker EXCEPT ![w] = Idle]
    /\ resp = NoResp
    /\ UNCHANGED << tasks, clock, queue, sent, providers, resp, pages, mcp >>

\* --------------------------------------------------------------------- Next
Body(prompt, model, provider, priority) ==
    [ prompt |-> prompt, priority |-> priority, model |-> model,
      provider |-> provider ]

\* request bodies: prompts of 0, 1, 15, 1000 and 1001 characters, priorities
\* 0, 1, 10 and 11 or none, with and without model and provider
Bodies ==
    { Body(Some(<< >>), None, None, None),
      Body(Some(<< "X999", "x", "x" >>), None, None, None),
      Body(Some(<< "Explain gravity" >>), None, None, Some(0)),
      Body(Some(<< "Explain gravity" >>), None, None, Some(11)),
      Body(Some(<< "x" >>), None, None, Some(1)),
      Body(Some(<< "X999", "x" >>), Some("deepseek-chat"), Some("deepseek"), Some(10)),
      Body(Some(<< "Explain gravity" >>), None, None, None) }

Next ==
    \/ InsertTask(SeedTask(Len(tasks) + 1))
    \/ \E i \in TaskIds : SendJob(JobFor(tasks[i]))
    \/ \E g \in GhostIds : SendJob(Job(g, << "x" >>, None, None, 0, 0))
    \/ \E body \in Bodies, brokerUp \in BOOLEAN : create_task(body, brokerUp)
    \/ \E task_id \in 1..(MaxTasks + 1) : get_task(task_id)
    \/ ResponseSent
    \/ \E w \in Workers, dbOk \in BOOLEAN, j \in BagToSet(queue) :
          JobStart(w, j, dbOk)
    \/ \E w \in Workers, dbOk \in BOOLEAN : JobUnavailable(w, dbOk)
    \/ \E w \in Workers : JobGenerate(w)
    \/ \E w \in Workers, dbOk \in BOOLEAN : JobWrite(w, dbOk)
    \/ \E w \in Workers, dbOk \in BOOLEAN : JobExcept(w, dbOk)
    \/ \E w \in Workers : JobAck(w)

Spec == Init /\ [][Next]_vars

\* A worker slot that can take a step takes it (a slot never stops in the
\* middle of the function body, and an idle slot takes a queued message), and
\* a response that is ready is sent.
WorkerStep(w) ==
    \/ \E dbOk \in BOOLEAN, j \in BagToSet(queue) : JobStart(w, j, dbOk)
    \/ \E dbOk \in BOOLEAN : JobUnavailable(w, dbOk)
    \/ JobGenerate(w)
    \/ \E dbOk \in BOOLEAN : JobWrite(w, dbOk)
    \/ \E dbOk \in BOOLEAN : JobExcept(w, dbOk)
    \/ JobAck(w)

FairSpec ==
    /\ Spec
    /\ WF_vars(ResponseSent)
    /\ \A w \in Workers : WF_vars(WorkerStep(w))

\* The worker is a process of its own: a slot that can take a step again and
\* again takes it, however often the API serves a request in between.
SchedSpec ==
    /\ Spec
    /\ WF_vars(ResponseSent)
    /\ \A w \in Workers : SF_vars(WorkerStep(w))

\* ---------------------------------------------------------------- MCP tools
\* The system with an MCP client that calls get_task_result, and a test
\* harness that calls the handler directly.
\* arguments of create_task calls: a bare prompt, every key given, a provider
\* outside the allow-list, an empty prompt, and no prompt
ToolArguments ==
    { Body(Some(<< "x" >>), None, None, None),
      Body(Some(<< "Explain gravity" >>), Some("deepseek-chat"), Some("openai"), Some(5)),
      Body(Some(<< "x" >>), None, Some("mistral"), None),
      Body(Some(<< >>), None, None, None),
      Body(None, None, None, None) }

McpNext ==
    \/ Next
    \/ \E task_id \in 1..(MaxTasks + 1) :
          handle_call_tool("get_task_result", [ task_id |-> task_id ])
    \/ \E task_id \in 1..(MaxTasks + 1) : handler_called_directly(task_id)
    \/ \E arguments \in ToolArguments : handle_call_tool("create_task", arguments)
    \/ \E arguments \in ToolArguments : create_handler_called_directly(arguments)
    \/ \E arguments \in ToolArguments : create_task_tool(arguments)

McpSpec == Init /\ [][McpNext]_vars

\* ----------------------------------------------------------------- listing
\* A paging client reads an unchanged table.  The table holds up to MaxRows
\* rows inserted like the sample_task fixture; rows committed in one
\* transaction carry the same created_at (server_default now()).
RECURSIVE TableOf(_)
TableOf(stamps) ==
    IF stamps = << >> THEN << >>
    ELSE LET t == TableOf(SubSeq(stamps, 1, Len(stamps) - 1))
         IN  Append(t, NewRow(t, SeedTasks[1], stamps[Len(stamps)]))

ListTables ==
    { TableOf(st) : st \in
        { st \in UNION { [1..n -> 1..MaxStamp] : n \in 0..MaxRows } :
            \A a, b \in DOMAIN st : a < b => st[a] <= st[b] } }

ListInit ==
    /\ tasks \in ListTables
    /\ clock = MaxStamp
    /\ queue = EmptyBag
    /\ worker = [w \in Workers |-> Idle]
    /\ sent = 0
    /\ providers \in ProviderConfigs
    /\ resp = NoResp
    /\ pages = << >>
    /\ mcp = NoTool

ListNext ==
    \E skip \in 0..MaxRows, limit \in 0..MaxRows, order \in DbOrders :
        get_tasks(skip, limit, order)

ListSpec == ListInit /\ [][ListNext]_vars

\* The whole system started on a table that already holds rows.
\* Rows keep being inserted while the table holds fewer than MaxRows.
InsertMore ==
    /\ MaxTasks <= Len(tasks) /\ Len(tasks) < MaxRows
    /\ InsertRow(SeedTask(Len(tasks) + 1))

TableNext == Next \/ InsertMore

TableSpec == ListInit /\ [][TableNext]_vars

\* ------------------------------------------------------------ duplicate jobs
\* One stored task for which two identical job messages are in the queue, and
\* the worker slots that execute them.
DupInit ==
    /\ tasks = << NewRow(<< >>, SeedTasks[1], 1) >>
    /\ clock = 1
    /\ queue = SetToBag({JobFor(tasks[1])}) (+) SetToBag({JobFor(tasks[1])})
    /\ worker = [w \in Workers |-> Idle]
    /\ sent = 2
    /\ providers \in ProviderConfigs
    /\ resp = NoResp
    /\ pages = << >>
    /\ mcp = NoTool

DupNext == \E w \in Workers : WorkerStep(w)

DupSpec == DupInit /\ [][DupNext]_vars

\* ------------------------------------------------------------ worker crashes
lost_message_requeued(j) == SetToBag({j})

lost_message_acknowledged(j) == EmptyBag

\* What the broker holds of message j after the process executing it was
\* lost.  With task_acks_late and the default task_reject_on_worker_lost the
\* pool acknowledges the message of a lost child process; when the whole
\* worker is lost the message was never acknowledged and the broker delivers
\* it again.
lost_message(j, redelivered) ==
    IF redelivered THEN lost_message_requeued(j) ELSE lost_message_acknowledged(j)

\* The process executing a job dies in the middle of the function body: after
\* the PROCESSING write and before the function has ended.
WorkerLost(w, redelivered) ==
    /\ worker[w].pc \in {"generate", "write", "unavailable", "except"}
    /\ worker' = [worker EXCEPT ![w].pc = "lost"]
    /\ queue' = queue (+) lost_message(worker[w].job, redelivered)
    /\ resp = NoResp
    /\ UNCHANGED << tasks, clock, sent, providers, resp, pages, mcp >>

\* A new process takes the slot of the lost one.
WorkerRestarted(w) ==
    /\ worker[w].pc = "lost"
    /\ worker' = [worker EXCEPT ![w] = Idle]
    /\ resp = NoResp
    /\ UNCHANGED << tasks, clock, queue, sent, providers, resp, pages, mcp >>

CrashNext ==
    \/ Next
    \/ \E w \in Workers, redelivered \in BOOLEAN : WorkerLost(w, redelivered)
    \/ \E w \in Workers : WorkerRestarted(w)

CrashSpec == Init /\ [][CrashNext]_vars

\* ------------------------------------------------------------- the whole API
\* The system with every HTTP operation: the steps of Next, the health check,
\* and the list read with a client's default window.
ApiNext ==
    \/ Next
    \/ health_check
    \/ \E order \in DbOrders : get_tasks(0, MaxRows, order)

ApiSpec == Init /\ [][ApiNext]_vars

\* ------------------------------------------------------------------- claims
\* the row a job's task_id names, when there is one
RowOf(j) == int(j.task_id)

\* a job execution's step from position p to another position
Leaves(w, p) == worker[w].pc = p /\ worker'[w].pc # p

\* C1: terminal states are absorbing: once a task's status is COMPLETED or
\* FAILED no step changes it to a different value.
C1_TerminalAbsorbing ==
    [][\A i \in TaskIds :
          tasks[i].status \in {COMPLETED, FAILED}
              => tasks'[i].status = tasks[i].status]_vars

\* C2: in every reachable state a task whose status is PENDING or PROCESSING
\* has a null result.
C2_NonTerminalResultNull ==
    \A i \in TaskIds :
        tasks[i].status \in {PENDING, PROCESSING} => tasks[i].result = None

\* C3: in every reachable state a task whose status is COMPLETED or FAILED
\* has a non-null result, whatever the provider returned.
C3_TerminalResultNonNull ==
    \A i \in TaskIds :
        tasks[i].status \in {COMPLETED, FAILED} => tasks[i].result # None

\* the inputs C4 and C8 call valid: a prompt of 1..1000 characters and, when
\* a priority is sent, one in 1..10
ValidInput(body) ==
    /\ body.prompt # None
    /\ StrLen(body.prompt[1]) \in 1..1000
    /\ body.priority # None => body.priority[1] \in 1..10

\* C4: for every valid input, POST /tasks answers 201, adds exactly one row,
\* and the task it returns and stores has status PENDING and a null result.
C4_CreateValidSucceeds ==
    [][\A body \in Bodies, brokerUp \in BOOLEAN :
          (ValidInput(body) /\ create_task(body, brokerUp))
              => /\ resp'.code = 201
                 /\ Len(tasks') = Len(tasks) + 1
                 /\ SubSeq(tasks', 1, Len(tasks)) = tasks
                 /\ tasks'[Len(tasks')].status = PENDING
                 /\ tasks'[Len(tasks')].result = None
                 /\ resp'.task # None
                 /\ resp'.task[1].status = PENDING
                 /\ resp'.task[1].result = None]_vars

\* C5: when the provider call of a job returns text t, the job ends with the
\* task COMPLETED and its stored result equal to t, and returns the
\* 'completed' payload with the same t.  Stated for the executions whose row
\* exists and whose COMPLETED write commits.
C5_ProviderTextPersisted ==
    [][\A w \in Workers :
          (/\ Leaves(w, "write")
           /\ worker[w].via = "provider"
           /\ worker[w].result # None
           /\ worker'[w].wrote)
              => /\ worker'[w].pc = "returned"
                 /\ worker'[w].result = worker[w].result
                 /\ tasks'[RowOf(worker[w].job)].status = COMPLETED
                 /\ tasks'[RowOf(worker[w].job)].result = worker[w].result]_vars

HasNoProviderMsg(row) ==
    row.result # None /\ Contains(row.result[1], NoProviderMsg[1])

C8_EnqueueFailureStillCreated ==
    [][\A body \in Bodies :
          (ValidInput(body) /\ create_task(body, FALSE))
              => /\ resp'.code = 201
                 /\ resp'.task # None
                 /\ resp'.task[1].status = PENDING
                 /\ Len(tasks') = Len(tasks) + 1
                 /\ tasks'[Len(tasks')].status = PENDING
                 /\ queue' = queue]_vars

\* the inputs C9 calls invalid
InvalidInput(body) ==
    \/ body.prompt # None
          /\ (StrLen(body.prompt[1]) = 0 \/ StrLen(body.prompt[1]) > 1000)
    \/ body.priority # None
          /\ (body.priority[1] < 1 \/ body.priority[1] > 10)

InvalidBodies == { body \in Bodies : InvalidInput(body) }

\* C9: for every input whose prompt has length 0 or more than 1000, or whose
\* priority is outside 1..10, POST /tasks answers 422, no row is stored and
\* no job is enqueued: a POST /tasks step that answers anything else, or that
\* changes the table, the queue or a worker, is not the step of such an input.
C9_InvalidRejected ==
    [][(/\ resp'.op = "create_task"
        /\ ~(/\ resp'.code = 422
             /\ tasks' = tasks
             /\ queue' = queue
             /\ worker' = worker))
          => \A body \in InvalidBodies, brokerUp \in BOOLEAN :
                ~create_task(body, brokerUp)]_vars

\* C9 happens: a request has been rejected with 422 while a row and a job
\* exist that the rejection left alone.
C9_Witness ==
    /\ resp.op = "create_task"
    /\ resp.code = 422
    /\ Len(tasks) = 1
    /\ queue # EmptyBag

\* C10: a task stored with prompt, model, provider and priority is read back
\* by GET /tasks/{id} with the same id and the same four values.
C10_RoundTrip ==
    (resp.op = "get_task" /\ resp.id \in TaskIds)
        => /\ resp.code = 200
           /\ resp.task # None
           /\ resp.task[1].id = resp.id
           /\ resp.task[1].prompt = tasks[resp.id].prompt
           /\ resp.task[1].model = tasks[resp.id].model
           /\ resp.task[1].priority = tasks[resp.id].priority
           /\ "provider" \in DOMAIN resp.task[1]
           /\ resp.task[1].provider = tasks[resp.id].provider

\* C11: GET /tasks/{id} for an id that has no row answers 404 with no task,
\* in every state, and leaves the table and the queue as they were.
C11_GetMissingNotFound ==
    [][(resp'.op = "get_task" /\ resp'.id \notin TaskIds)
          => /\ resp'.code = 404
             /\ resp'.task = None
             /\ tasks' = tasks
             /\ queue' = queue
             /\ worker' = worker]_vars

\* C11 happens: a 404 has been answered for a missing id while a row, already
\* written by a job, exists under another id.
C11_Witness ==
    /\ resp.op = "get_task"
    /\ resp.code = 404
    /\ resp.id \notin TaskIds
    /\ Len(tasks) = 1
    /\ tasks[1].status # PENDING

\* ids of a list response
PageIds(page) == [n \in 1..Len(page.tasks) |-> page.tasks[n].id]

\* created_at does not increase along a list response
PageSorted(page) ==
    \A a, b \in 1..Len(page.tasks) :
        a < b => page.tasks[a].created_at >= page.tasks[b].created_at

NoDuplicates(ids) == \A a, b \in 1..Len(ids) : a # b => ids[a] # ids[b]

\* C12: every list response is ordered by created_at descending, and on an
\* unchanged table the page (skip=0, limit=k) followed by the page (skip=k,
\* limit=m) has no duplicate id and equals the page (skip=0, limit=k+m)
\* element by element, also when rows share a created_at.
C12_PagesConcatenate ==
    /\ \A a \in 1..Len(pages) : pages[a].code = 200 /\ PageSorted(pages[a])
    /\ \A a, b, c \in 1..Len(pages) :
          (/\ pages[a].skip = 0
           /\ pages[b].skip = pages[a].limit
           /\ pages[c].skip = 0
           /\ pages[c].limit = pages[a].limit + pages[b].limit)
              => /\ NoDuplicates(PageIds(pages[a]) \o PageIds(pages[b]))
                 /\ PageIds(pages[a]) \o PageIds(pages[b]) = PageIds(pages[c])

\* every value the result column can hold
ResultValues ==
    {None, Some(NoProviderMsg), Some(FailurePrefix \o NoProviderMsg),
     Some(FailurePrefix \o NoLenMsg)}
    \cup ProviderReplies
    \cup { _generate_fallback_result(p) :
             p \in { SeedTasks[n].prompt : n \in 1..Len(SeedTasks) } \cup {<< "x" >>} }

\* the response in hand is a read of task i that shows COMPLETED
ReadsCompleted(i) ==
    /\ resp.op = "get_task" /\ resp.code = 200 /\ resp.id = i
    /\ resp.task[1].status = COMPLETED

\* C13: once a getTask read of a task has shown COMPLETED with some result,
\* every later getTask read of that task that shows COMPLETED returns the same
\* result, whatever executions, retries or duplicate jobs ran in between.
C13_CompletedReadsAgree ==
    \A i \in 1..MaxTasks : \A r \in ResultValues :
        [](ReadsCompleted(i) /\ resp.task[1].result = r
              => [](ReadsCompleted(i) => resp.task[1].result = r))

\* every result a row holds is one of ResultValues
ResultValuesCover == \A i \in TaskIds : tasks[i].result \in ResultValues
ToolAnswered == mcp'.name = "get_task_result" /\ mcp' # mcp

\* C15: the MCP tool get_task_result answers with a success envelope carrying
\* the stored result exactly when the task exists and is COMPLETED; otherwise
\* it answers with an error envelope that carries no result; and it never
\* changes the table.
C15_McpResultIffCompleted ==
    [][ToolAnswered =>
          LET task == task_crud_get_task(mcp'.task_id) IN
          /\ mcp'.success <=> (task # None /\ task[1].status = COMPLETED)
          /\ mcp'.success => /\ ~mcp'.isError
                             /\ mcp'.content # None
                             /\ mcp'.content[1].result = task[1].result
          /\ ~mcp'.success => mcp'.isError /\ mcp'.content = None
          /\ tasks' = tasks]_vars
\* C16: a task created by POST /tasks with no model is stored with model
\* null, and a job whose task has model null calls its provider with that
\* provider's default model (deepseek-chat, claude-3-sonnet-20240229, or the
\* configured default for OpenAI).
C16_NoModelUsesProviderDefault ==
    [][/\ \A body \in Bodies, brokerUp \in BOOLEAN :
            (ValidInput(body) /\ body.model = None /\ create_task(body, brokerUp))
                => /\ Len(tasks') = Len(tasks) + 1
                   /\ tasks'[Len(tasks')].model = None
       /\ \A w \in Workers :
            (/\ Leaves(w, "generate")
             /\ worker'[w].called # None
             /\ FindRow(worker[w].job.task_id) # None
             /\ FindRow(worker[w].job.task_id)[1].model = None)
                => worker'[w].called[1] =
                      provider_default_model(get_provider(worker[w].job.provider))]_vars
\* C17: the worker changes a task's status exactly once in each direction:
\* from PENDING to PROCESSING, and from PROCESSING to one terminal status,
\* both within one execution; so every change of a status is one of these
\* two, and an execution that ends leaves its task terminal.
C17_OneLifecycle ==
    [][/\ \A i \in TaskIds :
            tasks'[i].status # tasks[i].status
                => \/ tasks[i].status = PENDING /\ tasks'[i].status = PROCESSING
                   \/ /\ tasks[i].status = PROCESSING
                      /\ tasks'[i].status \in {COMPLETED, FAILED}
       /\ \A w \in Workers :
            (JobAck(w) /\ FindRow(worker[w].job.task_id) # None)
                => FindRow(worker[w].job.task_id)[1].status \in {COMPLETED, FAILED}]_vars
\* C18: a job message is executed at most once: no execution is followed by
\* a retry, so no message that is queued or being executed is a retry.
C18_NoRetry ==
    /\ \A j \in BagToSet(queue) : j.retries = 0
    /\ \A w \in Workers : worker[w].job.retries = 0 /\ worker[w].pc # "retried"
\* C19: a task is FAILED only when no provider is configured: with at least
\* one provider configured no task is ever FAILED.
C19_FailedOnlyWithoutProvider ==
    providers # {} => \A i \in TaskIds : tasks[i].status # FAILED
\* C20: in every execution of the job, when the provider is called the
\* stored status of the job's task is PROCESSING, also when the PROCESSING
\* write failed or found no row.
C20_ProcessingBeforeProviderCall ==
    [][\A w \in Workers :
          (Leaves(w, "generate") /\ worker'[w].called # None)
              => /\ FindRow(worker[w].job.task_id) # None
                 /\ FindRow(worker[w].job.task_id)[1].status = PROCESSING]_vars

\* the status and the result text a terminal write step of slot w carries
WrittenStatus(w) == IF worker[w].pc = "write" THEN COMPLETED ELSE FAILED

WrittenResult(w) ==
    IF worker[w].pc = "write" THEN worker[w].result
    ELSE IF worker[w].pc = "unavailable" THEN Some(NoProviderMsg)
    ELSE Some(FailurePrefix \o worker[w].exc)

TerminalWrite(w) ==
    /\ worker[w].pc \in {"write", "unavailable", "except"}
    /\ worker'[w].pc # worker[w].pc
    /\ worker'[w].wrote

\* C21: with two jobs for one task, each job calls the provider once, and
\* after every terminal write that commits the task's status and result are
\* the ones that write carried, so the last terminal write decides both.
C21_LastWriteWins ==
    [][\A w \in Workers :
          /\ Leaves(w, "generate")
                => worker'[w].called # None /\ worker[w].job.retries = 0
          /\ TerminalWrite(w)
                => /\ tasks'[RowOf(worker[w].job)].status = WrittenStatus(w)
                   /\ tasks'[RowOf(worker[w].job)].result = WrittenResult(w)]_vars

\* no message for task i is queued and no slot is executing one, in table t,
\* queue q and slots wk
NoJobFor(i, q, wk) ==
    /\ \A j \in BagToSet(q) : j.task_id # str(i)
    /\ \A w \in Workers :
          wk[w].job.task_id = str(i)
              => wk[w].pc \notin {"generate", "write", "unavailable", "except"}

\* C22: when the process executing the only job of a task is lost after the
\* PROCESSING write and its message is not delivered again, the task is left
\* PROCESSING with no job; and from then on no step changes its status or
\* brings a job for it, unless a producer sends a new message.
C22_StuckProcessing ==
    [][\A i \in TaskIds :
          /\ \A w \in Workers :
                (/\ WorkerLost(w, FALSE)
                 /\ worker[w].job.task_id = str(i)
                 /\ tasks[i].status = PROCESSING
                 /\ NoJobFor(i, queue, [worker EXCEPT ![w] = Idle]))
                    => tasks'[i].status = PROCESSING /\ NoJobFor(i, queue', worker')
          /\ (tasks[i].status = PROCESSING /\ NoJobFor(i, queue, worker) /\ sent' = sent)
                => tasks'[i].status = PROCESSING /\ NoJobFor(i, queue', worker')]_vars

\* the slot that was generating for task 1 is lost, its message is gone, no
\* producer can send another, and the task is PROCESSING
C22_Witness ==
    /\ Len(tasks) = 1 /\ tasks[1].status = PROCESSING
    /\ \E w \in Workers : worker[w].pc = "lost" /\ worker[w].job.task_id = str(1)
    /\ queue = EmptyBag
    /\ sent = MaxSends

\* a step of one HTTP operation
ReadStep ==
    \/ resp' # resp /\ resp'.op \in {"get_task", "health_check"}
    \/ pages' # pages

CreateStep == resp' # resp /\ resp'.op = "create_task"

\* C23: no HTTP operation changes an existing row; getTask, listTasks and
\* healthCheck leave the table and the queue as they were; and every change
\* of a status or a result happens in a step of a worker slot.
C23_ClientsDontMutate ==
    [][/\ CreateStep => \A i \in TaskIds : tasks'[i] = tasks[i]
       /\ ReadStep => tasks' = tasks /\ queue' = queue
       /\ \A i \in TaskIds :
            (tasks'[i].status # tasks[i].status \/ tasks'[i].result # tasks[i].result)
                => \E w \in Workers : worker'[w] # worker[w]]_vars

\* a finished task has been listed and read, and the health check answers
C23_Witness ==
    /\ Len(tasks) = 1 /\ tasks[1].status = COMPLETED /\ tasks[1].result # None
    /\ Len(pages) = 2
    /\ pages[1].tasks # << >> /\ pages[1].tasks[1].status = PROCESSING
    /\ pages[2].tasks # << >> /\ pages[2].tasks[1].status = COMPLETED
    /\ resp.op = "health_check"

FixedColumns(row) ==
    << row.id, row.prompt, row.model, row.provider, row.priority, row.created_at >>

\* C25: a step of a worker slot adds and removes no row, leaves every row but
\* the one its task_id names exactly as it was, and changes at most the status
\* and the result of that one; when no row has that id the table is unchanged
\* and the write reports failure.
C25_WorkerFrame ==
    [][\A w \in Workers :
          worker'[w] # worker[w]
              => LET j == IF worker[w].pc = "idle" THEN worker'[w].job ELSE worker[w].job
                 IN  /\ Len(tasks') = Len(tasks)
                     /\ \A i \in TaskIds :
                           /\ FixedColumns(tasks'[i]) = FixedColumns(tasks[i])
                           /\ FindRow(j.task_id) # Some(tasks[i]) => tasks'[i] = tasks[i]
                     /\ FindRow(j.task_id) = None
                           => tasks' = tasks /\ ~worker'[w].wrote]_vars

\* of three rows the second was taken to COMPLETED with a result by its job,
\* the others are as they were inserted
C25_Witness ==
    /\ Len(tasks) = 3
    /\ tasks[2].status = COMPLETED /\ tasks[2].result # None
    /\ tasks[1].status = PENDING /\ tasks[1].result = None
    /\ tasks[3].status = PENDING /\ tasks[3].result = None

\* the ids of the rows of table t
IdsOf(t) == { t[i].id : i \in 1..Len(t) }

\* C26: no step of the HTTP API, of the MCP tools or of a worker removes a
\* task: every id that exists before a step exists after it.
C26_NeverDeleted == [][IdsOf(tasks) \subseteq IdsOf(tasks')]_vars

\* task 1 is still there after its job ended FAILED and retried, an MCP
\* create_task call was answered and an HTTP read found it
C26_Witness ==
    /\ 1 \in IdsOf(tasks) /\ tasks[1].status = FAILED
    /\ \E j \in BagToSet(queue) : j.retries > 0
    /\ mcp.name = "create_task"
    /\ resp.op = "get_task" /\ resp.code = 200

Quiescent == queue = EmptyBag /\ \A w \in Workers : worker[w].pc = "idle"

\* the step in which the execution in slot w ends without a retry
Stops(w) ==
    /\ worker[w].pc \notin {"returned", "raised"}
    /\ worker'[w].pc \in {"returned", "raised"}

McpCreateStep(arguments) ==
    \/ handle_call_tool("create_task", arguments)
    \/ create_task_tool(arguments)
    \/ create_handler_called_directly(arguments)

\* C29: a create_task call through MCP (tool function or server handler)
\* with valid arguments inserts the task with status PENDING and enqueues no
\* job, and a PENDING task leaves PENDING only in a step of a worker that
\* executes a job for it.
C29_McpCreatedStaysPending ==
    [][/\ \A arguments \in ToolArguments :
            (validate_task_params(arguments) /\ McpCreateStep(arguments))
                => /\ mcp'.success
                   /\ Len(tasks') = Len(tasks) + 1
                   /\ tasks'[Len(tasks')].status = PENDING
                   /\ queue' = queue
       /\ \A i \in TaskIds :
            (tasks[i].status = PENDING /\ tasks'[i].status # PENDING)
                => \E w \in Workers :
                      /\ worker'[w].pc # "idle"
                      /\ worker'[w].job.task_id = str(i)]_vars

\* the write of this step carries no result text: the PROCESSING write of
\* slot w, or its COMPLETED write with a result that is None or empty
WriteWithoutResult(w) ==
    \/ Leaves(w, "idle")
    \/ Leaves(w, "write") /\ ~Truthy(worker[w].result)

\* C30: a worker write that carries no result text changes at most the
\* status of its task and leaves every stored result as it is, so a result
\* stored by an earlier execution survives it.
C30_ResultSurvives ==
    [][\A w \in Workers :
          WriteWithoutResult(w)
              => /\ \A i \in TaskIds : tasks'[i].result = tasks[i].result
                 /\ worker'[w].wrote
                       => tasks'[RowOf(worker'[w].job)].status =
                             IF Leaves(w, "idle") THEN PROCESSING ELSE COMPLETED]_vars

\* C30 happens: a COMPLETED write with no result text has committed on a row
\* that still carries the text an earlier execution stored.
C30_Witness ==
    \E w \in Workers :
        /\ worker[w].pc = "except"
        /\ worker[w].exc = NoLenMsg
        /\ worker[w].wrote
        /\ tasks[RowOf(worker[w].job)].status = COMPLETED
        /\ tasks[RowOf(worker[w].job)].result # None
====
